---- MODULE Spec2Model ----
(***************************************************************************)
(* Model of the VirusTotal external-lookup enrichment engine               *)
(* (plugins/external_lookup/virustotal/app.py, class Enricher).            *)
(*                                                                         *)
(* An Enricher is constructed over one source document, runs _enrich       *)
(* (a fixed sequence of _add calls) into the accumulator _enrichment and   *)
(* then flattens the accumulator into the ordered list enrichment.         *)
(***************************************************************************)
EXTENDS Integers, Sequences, FiniteSets, TLC

(***************************************************************************)
(* JSON / Python values.  Every value carries its Python type as a tag so  *)
(* that values of different types can be held in one list and compared.    *)
(* A dict is an ordered list of <<key, value>> pairs with distinct string  *)
(* keys: Python dicts iterate in insertion order.                          *)
(***************************************************************************)
S(s) == [t |-> "str", v |-> s]
N(n) == [t |-> "int", v |-> n]
B(b) == [t |-> "bool", v |-> b]
None == [t |-> "none", v |-> 0]
L(seq) == [t |-> "list", v |-> seq]
D(pairs) == [t |-> "dict", v |-> pairs]

\* left fold of Op over seq: the shape of every "for x in seq:" loop
Fold(Op(_, _), s0, seq) ==
    LET f[i \in 0..Len(seq)] == IF i = 0 THEN s0 ELSE Op(f[i - 1], seq[i])
    IN  f[Len(seq)]

\* bool(x): Python truthiness
Truthy(x) ==
    CASE x.t = "none" -> FALSE
      [] x.t = "bool" -> x.v
      [] x.t = "int"  -> x.v # 0
      [] x.t = "str"  -> x.v # ""
      [] OTHER        -> Len(x.v) > 0

\* x == y in Python: bool is an int, lists compare elementwise, dicts
\* compare as mappings (key order is irrelevant)
\* bool is a subclass of int: True is 1 and False is 0
IsNumber(x) == x.t \in {"int", "bool"}
Number(x) == IF x.t = "bool" THEN (IF x.v THEN 1 ELSE 0) ELSE x.v

RECURSIVE PyEq(_, _)
PyEq(x, y) ==
    CASE IsNumber(x) /\ IsNumber(y) -> Number(x) = Number(y)
          [] x.t # y.t -> FALSE
          [] x.t = "list" ->
                /\ Len(x.v) = Len(y.v)
                /\ \A i \in 1..Len(x.v) : PyEq(x.v[i], y.v[i])
          [] x.t = "dict" ->
                /\ Len(x.v) = Len(y.v)
                /\ \A i \in 1..Len(x.v) : \E j \in 1..Len(y.v) :
                       x.v[i][1] = y.v[j][1] /\ PyEq(x.v[i][2], y.v[j][2])
          [] OTHER -> x.v = y.v

\* k in d
Has(d, k) == d.t = "dict" /\ \E i \in 1..Len(d.v) : d.v[i][1] = k

\* d.get(k, default)
Get(d, k, default) ==
    IF Has(d, k)
    THEN d.v[CHOOSE i \in 1..Len(d.v) : d.v[i][1] = k][2]
    ELSE default

\* d[k], used only where k in d has been established
Item(d, k) == Get(d, k, None)

\* list(d.values()), list(d.keys()) in iteration order
Values(d) == [i \in 1..Len(d.v) |-> d.v[i][2]]
Keys(d) == [i \in 1..Len(d.v) |-> d.v[i][1]]

\* list(x): the elements a for loop or join sees; None where x is not iterable
Elements(x) ==
    CASE x.t = "list" -> x
      [] x.t = "dict" -> L([i \in 1..Len(x.v) |-> S(x.v[i][1])])
      [] x.t = "str"  -> L([i \in 1..Len(x.v) |-> S(SubSeq(x.v, i, i))])
      [] OTHER        -> None

\* sep.join(strs) on a list of plain strings
Join(sep, strs) ==
    LET step(acc, s) == IF acc.first THEN [first |-> FALSE, out |-> s]
                        ELSE [first |-> FALSE, out |-> acc.out \o sep \o s]
    IN  Fold(step, [first |-> TRUE, out |-> ""], strs).out

\* seq.count(x) on a list of values
Count(seq, x) == Cardinality({i \in 1..Len(seq) : PyEq(seq[i], x)})

\* str(x) / f"{x}": the text of a value inside an f-string
RECURSIVE Repr(_)
RECURSIVE Str(_)
Repr(x) == IF x.t = "str" THEN "'" \o x.v \o "'" ELSE Str(x)
Str(x) ==
    CASE x.t = "str"  -> x.v
      [] x.t = "int"  -> ToString(x.v)
      [] x.t = "bool" -> IF x.v THEN "True" ELSE "False"
      [] x.t = "none" -> "None"
      [] x.t = "list" -> "[" \o Join(", ", [i \in 1..Len(x.v) |-> Repr(x.v[i])]) \o "]"
      [] OTHER -> "{" \o Join(", ", [i \in 1..Len(x.v) |->
                        "'" \o x.v[i][1] \o "': " \o Repr(x.v[i][2])]) \o "}"

(***************************************************************************)
(* datetime.datetime.fromtimestamp(n, timezone.utc).isoformat()            *)
(* for a whole number of epoch seconds: proleptic Gregorian calendar.      *)
(***************************************************************************)
Pad(n, width) ==
    LET s == ToString(n)
    IN  IF Len(s) >= width THEN s
        ELSE SubSeq("0000", 1, width - Len(s)) \o s

IsoFormat(n) ==
    LET days == n \div 86400
        secs == n % 86400
        z    == days + 719468
        era  == z \div 146097
        doe  == z % 146097
        yoe  == (doe - doe \div 1460 + doe \div 36524 - doe \div 146096) \div 365
        doy  == doe - (365 * yoe + yoe \div 4 - yoe \div 100)
        mp   == (5 * doy + 2) \div 153
        day  == doy - (153 * mp + 2) \div 5 + 1
        mon  == IF mp < 10 THEN mp + 3 ELSE mp - 9
        year == yoe + era * 400 + (IF mon <= 2 THEN 1 ELSE 0)
    IN  Pad(year, 4) \o "-" \o Pad(mon, 2) \o "-" \o Pad(day, 2) \o "T"
        \o Pad(secs \div 3600, 2) \o ":" \o Pad((secs % 3600) \div 60, 2) \o ":"
        \o Pad(secs % 60, 2) \o "+00:00"

(***************************************************************************)
(* The object under construction.  self.data is the source document,       *)
(* self._enrichment the accumulator {group: {name: [values]}} held as an   *)
(* insertion-ordered list of <<group, <<name, values>>...>> entries.       *)
(* raised records that an exception has left the constructor; emitted is   *)
(* the sequence of (group, name, value) triples handed to the accumulator, *)
(* the list the source once kept as enrichment_ordered.                    *)
(***************************************************************************)
Raise(self) == [self EXCEPT !.raised = TRUE]

\* "for x in seq: body" where an exception in body ends the loop
ForEach(Body(_, _), self, seq) ==
    LET step(s, x) == IF s.raised THEN s ELSE Body(s, x)
    IN  Fold(step, self, seq)

\* index of group / name in an ordered dict, 0 when absent
GroupIndex(enr, group) ==
    IF \E i \in 1..Len(enr) : enr[i][1] = group
    THEN CHOOSE i \in 1..Len(enr) : enr[i][1] = group
    ELSE 0

NameIndex(kvals, name) ==
    IF \E i \in 1..Len(kvals) : PyEq(kvals[i][1], name)
    THEN CHOOSE i \in 1..Len(kvals) : PyEq(kvals[i][1], name)
    ELSE 0

Contains(vals, value) == \E i \in 1..Len(vals) : PyEq(vals[i], value)

\* d.setdefault(key, {}) / d.setdefault(name, []) on an ordered dict:
\* a missing key is added at the end
WithGroup(enr, group) ==
    IF GroupIndex(enr, group) = 0 THEN Append(enr, <<group, <<>>>>) ELSE enr

WithName(kvals, name) ==
    IF NameIndex(kvals, name) = 0 THEN Append(kvals, <<name, <<>>>>) ELSE kvals

\* if value not in x: x.append(value)
AppendUnique_Mutant(vals, value) == Append(vals, value)

\* a falsy value is not appended to the list already created for it
AppendTruthy_Mutant(vals, value) ==
    IF Contains(vals, value) \/ value \in {[t |-> "int", v |-> 0], [t |-> "str", v |-> ""]}
    THEN vals ELSE Append(vals, value)

AppendUnique(vals, value) ==
    IF Contains(vals, value) THEN vals ELSE Append(vals, value)

\* lines 377-379 of _add:
\*   x = self._enrichment.setdefault(group, {}).setdefault(name, [])
\*   if value not in x: x.append(value)
StoreName(kvals, name, value) ==
    [kvals EXCEPT ![NameIndex(kvals, name)][2] = AppendUnique(@, value)]

StoreGroup(enr, group, name, value) ==
    [enr EXCEPT ![GroupIndex(enr, group)][2] = StoreName(WithName(@, name), name, value)]

Store(enr, group, name, value) == StoreGroup(WithGroup(enr, group), group, name, value)

\* s contains k as a substring (k in s for two str)
Substring(k, s) ==
    \E i \in 1..(Len(s) - Len(k) + 1) : SubSeq(s, i, i + Len(k) - 1) = k

\* keyword arguments of _add left at their defaults
Defaults ==
    [name |-> None, key |-> None, default |-> None, name_key |-> None,
     value |-> None, value_key |-> None, is_timestamp |-> FALSE,
     ignore_falsy |-> FALSE, data |-> None]

\* [item[k] for k in value_key if k in item]; ok is FALSE where Python raises
Project(item, vks) ==
    CASE item.t = "dict" ->
            [ok |-> TRUE,
             values |-> LET step(acc, k) == IF Has(item, k) THEN Append(acc, Item(item, k)) ELSE acc
                        IN  Fold(step, <<>>, vks)]
      [] item.t = "str" ->
            [ok |-> \A i \in 1..Len(vks) : ~Substring(vks[i], item.v), values |-> <<>>]
      [] item.t = "list" ->
            [ok |-> \A i \in 1..Len(vks) : ~Contains(item.v, S(vks[i])), values |-> <<>>]
      [] OTHER -> [ok |-> FALSE, values |-> <<>>]

\* the name under which a row's value is filed (lines 369-370):
\* name is assigned once and then kept for the rest of the call
RowName(name, item, name_key) ==
    IF name.t # "none" THEN name
    ELSE IF name_key.t = "str" THEN Get(item, name_key.v, None) ELSE None

\* line 366: if ignore_falsy and not value: continue
Skips_Mutant(kw, value) == kw.ignore_falsy /\ value.t = "none"

Skips(kw, value) == kw.ignore_falsy /\ ~Truthy(value)

\* the body of "for value in values:" (lines 365-379);
\* st is [self, name]: name is a local of _add that the loop assigns
AddValue(st, group, kw, item, value0) ==
    IF Skips(kw, value0) THEN st
    ELSE IF st.name.t = "none" /\ item.t # "dict"
    THEN [st EXCEPT !.self = Raise(st.self)]
    ELSE
      LET name == RowName(st.name, item, kw.name_key)
          tsok == ~kw.is_timestamp \/ IsNumber(value0)
          value == IF kw.is_timestamp /\ tsok THEN S(IsoFormat(Number(value0))) ELSE value0
      IN  IF ~tsok \/ name.t \in {"list", "dict"}
          THEN [self |-> Raise(st.self), name |-> name]
          ELSE [self |-> [st.self EXCEPT
                            !._enrichment = Store(@, group, name, value),
                            !.emitted = Append(@, [group |-> group, name |-> name, value |-> value])],
                name |-> name]

\* the body of "for item in items:" (lines 357-379)
AddRow(st, group, kw, vks, item) ==
    LET p == IF Len(vks) = 0 THEN [ok |-> TRUE, values |-> <<item>>]
             ELSE Project(item, vks)
        inner(s, value) == IF s.self.raised THEN s ELSE AddValue(s, group, kw, item, value)
    IN  IF ~p.ok THEN [st EXCEPT !.self = Raise(st.self)]
        ELSE Fold(inner, st, p.values)

\* Enricher._add(group, name, key, default, *, name_key, value, value_key,
\*               is_timestamp, ignore_falsy, data)
_add(self, group, kwargs) ==
    LET kw == kwargs @@ Defaults
        d == IF Truthy(kw.data) THEN kw.data ELSE self.data
        direct == kw.value.t # "none"
        key == IF kw.key.t = "none" THEN kw.name ELSE kw.key
        item == IF direct THEN kw.value
                ELSE IF key.t = "str" /\ d.t = "dict" THEN Get(d, key.v, kw.default)
                ELSE kw.default
        items == IF item.t = "list" THEN item.v ELSE <<item>>
        vks == IF ~Truthy(kw.value_key) THEN <<>>
               ELSE IF kw.value_key.t = "list" THEN [i \in 1..Len(kw.value_key.v) |-> kw.value_key.v[i].v]
               ELSE <<kw.value_key.v>>
        outer(s, row) == IF s.self.raised THEN s ELSE AddRow(s, group, kw, vks, row)
    IN  IF self.raised THEN self
        ELSE IF ~direct /\ d.t # "dict" THEN Raise(self)
        ELSE IF item.t = "none" THEN self
        ELSE Fold(outer, [self |-> self, name |-> kw.name], items).self

(***************************************************************************)
(* Enricher._enrich, one operator per commented block of the method.       *)
(* Each takes self and returns self after the block; an exception raised   *)
(* in the block (a KeyError of r["k"], an AttributeError of x.values())    *)
(* returns self with raised set.                                           *)
(***************************************************************************)
EmptyDict == D(<<>>)
EmptyList == L(<<>>)

\* a straight run of self._add(group, ...) calls
AddAll(self, calls) ==
    LET step(s, c) == _add(s, c[1], c[2])
    IN  Fold(step, self, calls)

\* every r of rows is a dict that has all of keys (else r[k] raises)
HasAll(r, keys) == r.t = "dict" /\ \A k \in keys : Has(r, k)

\* [r.get(key, "") for r in rows]
GetEach(rows, key) == [i \in 1..Len(rows) |-> Get(rows[i], key, S(""))]

\* lines 386-406
Summary(self) ==
    LET sv == Get(self.data, "sandbox_verdicts", EmptyDict)
        ai == Elements(Get(self.data, "crowdsourced_ai_results", EmptyList))
        threats == Get(self.data, "popular_threat_classification", EmptyDict)
        ranks == Get(self.data, "popularity_ranks", EmptyDict)
        categories == Get(self.data, "categories", EmptyDict)
        brands == Get(self.data, "targeted_brand", EmptyDict)
        verdicts == GetEach(Values(sv), "category")
        aiverdicts == GetEach(ai.v, "verdict")
        av(s) == AddAll(s, <<
            <<"summary", [name |-> S("av_malicious"), key |-> S("last_analysis_stats"),
                          value_key |-> S("malicious")]>>,
            <<"summary", [name |-> S("av_suspicious"), key |-> S("last_analysis_stats"),
                          value_key |-> S("suspicious"), ignore_falsy |-> TRUE]>> >>)
        sandbox(s) ==
            IF sv.t # "dict" \/ \E i \in 1..Len(sv.v) : sv.v[i][2].t # "dict"
            THEN Raise(s)
            ELSE AddAll(s, <<
                <<"summary", [name |-> S("sandbox_malicious"),
                              value |-> N(Count(verdicts, S("malicious")))]>>,
                <<"summary", [name |-> S("sandbox_suspicious"),
                              value |-> N(Count(verdicts, S("suspicious"))),
                              ignore_falsy |-> TRUE]>> >>)
        aicount(s) ==
            IF s.raised THEN s
            ELSE IF ai.t # "list" \/ \E i \in 1..Len(ai.v) : ai.v[i].t # "dict"
            THEN Raise(s)
            ELSE AddAll(s, <<
                <<"summary", [name |-> S("ai_malicious"),
                              value |-> N(Count(aiverdicts, S("malicious"))),
                              ignore_falsy |-> TRUE]>>,
                <<"summary", [name |-> S("ai_suspicious"),
                              value |-> N(Count(aiverdicts, S("suspicious"))),
                              ignore_falsy |-> TRUE]>> >>)
        rest(s) == AddAll(s,
            (IF Truthy(threats)
             THEN <<
                <<"summary", [name |-> S("threat"), key |-> S("suggested_threat_label"),
                              data |-> threats]>>,
                <<"summary", [name |-> S("threat_family"), key |-> S("popular_threat_name"),
                              value_key |-> S("value"), data |-> threats]>>,
                <<"summary", [name |-> S("threat_category"), key |-> S("popular_threat_category"),
                              value_key |-> S("value"), data |-> threats]>> >>
             ELSE <<>>)
            \o <<
                <<"summary", [name |-> S("reputation"), default |-> N(0)]>>,
                <<"summary", [name |-> S("capabilities"), key |-> S("capabilities_tags")]>> >>
            \o (IF Truthy(ranks)
                THEN << <<"summary", [name |-> S("labels"), value |-> S("popular domain")]>> >>
                ELSE <<>>))
        \* "for v in d.values(): self._add("summary", name, value=v)"
        each(s, d, name) ==
            IF s.raised THEN s
            ELSE IF d.t # "dict" THEN Raise(s)
            ELSE AddAll(s, [i \in 1..Len(d.v) |->
                                <<"summary", [name |-> S(name), value |-> d.v[i][2]]>>])
    IN  each(each(rest(aicount(sandbox(av(self)))), categories, "labels"),
             brands, "targeted_brand")

\* lines 409-416
Alerts(self) ==
    LET stat(name, key, level) ==
            <<"alerts", [name |-> S(name), key |-> S(key), value_key |-> S(level),
                         ignore_falsy |-> TRUE]>>
    IN  AddAll(self, <<
            stat("sigma_alerts_critical", "sigma_analysis_stats", "critical"),
            stat("sigma_alerts_high", "sigma_analysis_stats", "high"),
            stat("sigma_alerts_medium", "sigma_analysis_stats", "medium"),
            stat("sigma_alerts_low", "sigma_analysis_stats", "low"),
            stat("ids_alerts_high", "crowdsourced_ids_stats", "high"),
            stat("ids_alerts_medium", "crowdsourced_ids_stats", "medium"),
            stat("ids_alerts_low", "crowdsourced_ids_stats", "low"),
            stat("ids_alerts_info", "crowdsourced_ids_stats", "info") >>)

\* lines 419-421
CrowdsourcedContext(self) ==
    LET rows == Elements(Get(self.data, "crowdsourced_context", EmptyList))
        body(s, context) ==
            IF ~HasAll(context, {"title", "source", "details"}) THEN Raise(s)
            ELSE _add(s, "crowdsourced_context",
                      [name |-> S(Str(Item(context, "title")) \o " ("
                                  \o Str(Item(context, "source")) \o ")"),
                       value |-> Item(context, "details")])
    IN  IF rows.t # "list" THEN Raise(self) ELSE ForEach(body, self, rows.v)

\* lines 424-425
ConfigExtraction(self) ==
    LET config == Get(self.data, "malware_config", EmptyDict)
        body(s, kv) == _add(s, "configuration_extraction", [name |-> S(kv[1]), value |-> kv[2]])
    IN  IF config.t # "dict" THEN Raise(self) ELSE ForEach(body, self, config.v)

\* lines 428-438
Networking(self) ==
    LET ti == Get(self.data, "traffic_inspection", EmptyDict)
        http == Elements(Get(ti, "http", EmptyList))
        request(s, r, target) ==
            IF s.raised THEN s
            ELSE IF ~Has(r, target) THEN Raise(s)
            ELSE IF ~Truthy(Item(r, target)) THEN s
            ELSE IF ~Has(r, "method") THEN Raise(s)
            ELSE _add(s, "networking",
                      [name |-> S("http_request"),
                       value |-> S(Str(Item(r, "method")) \o " " \o Str(Item(r, target)))])
        agent(s, r) ==
            IF s.raised THEN s
            ELSE IF ~Has(r, "user-agent") THEN Raise(s)
            ELSE IF ~Truthy(Item(r, "user-agent")) THEN s
            ELSE _add(s, "networking", [name |-> S("user-agent"), value |-> Item(r, "user-agent")])
        body(s, r) ==
            IF r.t # "dict" THEN Raise(s)
            ELSE agent(request(request(s, r, "url"), r, "remote_host"), r)
        loop(s) ==
            IF s.raised THEN s
            ELSE IF ti.t # "dict" \/ http.t # "list" THEN Raise(s)
            ELSE ForEach(body, s, http.v)
    IN  loop(_add(self, "networking", [name |-> S("infrastructure"),
                                       key |-> S("network_infrastructure")]))

\* line 442
YaraHits(self) ==
    _add(self, "yara_hits", [key |-> S("crowdsourced_yara_results"),
                             name_key |-> S("source"), value_key |-> S("rule_name")])

\* lines 445-448
Popularity(self) ==
    LET ranks == Get(self.data, "popularity_ranks", EmptyDict)
        body(s, kv) ==
            LET r == kv[2]
            IN  IF ~HasAll(r, {"timestamp"}) \/ ~IsNumber(Item(r, "timestamp")) THEN Raise(s)
                ELSE IF ~Has(r, "rank") THEN Raise(s)
                ELSE _add(s, "popularity_ranks",
                          [name |-> S(kv[1]),
                           value |-> S(Str(Item(r, "rank")) \o " ("
                                       \o IsoFormat(Number(Item(r, "timestamp"))) \o ")")])
    IN  IF ranks.t # "dict" THEN Raise(self) ELSE ForEach(body, self, ranks.v)

\* the two lists built by "if r["category"] == ...: xs.append(r)";
\* ok is FALSE when some r has no "category"
Partition(rows) ==
    LET pick(cat) ==
            LET step(acc, r) == IF PyEq(Item(r, "category"), S(cat)) THEN Append(acc, r) ELSE acc
            IN  Fold(step, <<>>, rows)
    IN  [ok |-> \A i \in 1..Len(rows) : HasAll(rows[i], {"category"}),
         malicious |-> pick("malicious"), sus |-> pick("suspicious")]

\* one malicious / one suspicious sandbox verdict (lines 459-465)
SandboxMalicious(s, r) ==
    LET names == Elements(Get(r, "malware_names", EmptyList))
        joined == Join(", ", [i \in 1..Len(names.v) |-> names.v[i].v])
        value == IF joined = "" THEN "malicious" ELSE joined
        confidence == IF Truthy(Get(r, "confidence", None))
                      THEN " (Confidence: " \o Str(Get(r, "confidence", None)) \o ")"
                      ELSE ""
    IN  IF names.t # "list" \/ \E i \in 1..Len(names.v) : names.v[i].t # "str"
        THEN Raise(s)
        ELSE IF ~Has(r, "sandbox_name") THEN Raise(s)
        ELSE _add(s, "sandboxes", [name |-> Item(r, "sandbox_name"),
                                   value |-> S(value \o confidence)])

SandboxSuspicious(s, r) ==
    IF ~Has(r, "sandbox_name") THEN Raise(s)
    ELSE _add(s, "sandboxes", [name |-> Item(r, "sandbox_name"), value |-> S("suspicious")])

\* the verdicts filed in one pass, in the order of the document
SandboxResults_Mutant(self) ==
    LET sv == Get(self.data, "sandbox_verdicts", EmptyDict)
        body(s, r) ==
            IF PyEq(Item(r, "category"), S("malicious")) THEN SandboxMalicious(s, r)
            ELSE IF PyEq(Item(r, "category"), S("suspicious")) THEN SandboxSuspicious(s, r)
            ELSE s
    IN  IF sv.t # "dict" \/ ~Partition(Values(sv)).ok THEN Raise(self)
        ELSE ForEach(body, self, Values(sv))

\* lines 452-465
SandboxResults(self) ==
    LET sv == Get(self.data, "sandbox_verdicts", EmptyDict)
        p == Partition(Values(sv))
    IN  IF sv.t # "dict" \/ ~p.ok THEN Raise(self)
        ELSE ForEach(SandboxSuspicious, ForEach(SandboxMalicious, self, p.malicious), p.sus)

\* lines 469-481
AVResults(self) ==
    LET results == Get(self.data, "last_analysis_results", EmptyDict)
        p == Partition(Values(results))
        updated(r) == IF Truthy(Get(r, "engine_update", None))
                      THEN " (" \o Str(Get(r, "engine_update", None)) \o ")"
                      ELSE ""
        mal(s, r) ==
            IF ~HasAll(r, {"engine_name", "result"}) THEN Raise(s)
            ELSE _add(s, "security_vendors",
                      [name |-> Item(r, "engine_name"),
                       value |-> S(Str(Item(r, "result")) \o updated(r))])
        sus(s, r) ==
            IF ~Has(r, "engine_name") THEN Raise(s)
            ELSE _add(s, "security_vendors",
                      [name |-> Item(r, "engine_name"), value |-> S("suspicious" \o updated(r))])
    IN  IF results.t # "dict" \/ ~p.ok THEN Raise(self)
        ELSE ForEach(sus, ForEach(mal, self, p.malicious), p.sus)

\* lines 484-485
SigmaResults(self) ==
    LET rows == Elements(Get(self.data, "sigma_analysis_results", EmptyList))
        body(s, r) ==
            IF ~HasAll(r, {"rule_level", "rule_title", "rule_author"}) THEN Raise(s)
            ELSE _add(s, "sigma_alerts",
                      [name |-> Item(r, "rule_level"),
                       value |-> S(Str(Item(r, "rule_title")) \o " ["
                                   \o Str(Item(r, "rule_author")) \o "]")])
    IN  IF rows.t # "list" THEN Raise(self) ELSE ForEach(body, self, rows.v)

\* lines 488-492
IDSDetails(self) ==
    LET rows == Elements(Get(self.data, "crowdsourced_ids_results", EmptyList))
        body(s, results) ==
            IF ~HasAll(results, {"alert_severity", "rule_category", "rule-msg"}) THEN Raise(s)
            ELSE
              LET name == Str(Item(results, "alert_severity")) \o "::"
                          \o Str(Item(results, "rule_category")) \o "::"
                          \o Str(Item(results, "rule-msg"))
                  contexts == Elements(Get(results, "alert_context", EmptyList))
                  pair(s2, kv) == _add(s2, "ids_alerts",
                                       [name |-> S(name),
                                        value |-> S(kv[1] \o ": " \o Str(kv[2]))])
                  each(s1, context) ==
                      IF context.t # "dict" THEN Raise(s1) ELSE ForEach(pair, s1, context.v)
              IN  IF contexts.t # "list" THEN Raise(s) ELSE ForEach(each, s, contexts.v)
    IN  IF rows.t # "list" THEN Raise(self) ELSE ForEach(body, self, rows.v)

\* lines 495-497
AIResults(self) ==
    LET rows == Elements(Get(self.data, "crowdsourced_ai_results", EmptyList))
        body(s, r) ==
            IF ~HasAll(r, {"source", "category"}) THEN Raise(s)
            ELSE _add(s, "ai_analysis",
                      [key |-> S("crowdsourced_ai_results"),
                       name |-> S(Str(Item(r, "source")) \o "::" \o Str(Item(r, "category"))),
                       value_key |-> S("analysis")])
    IN  IF rows.t # "list" THEN Raise(self) ELSE ForEach(body, self, rows.v)

\* a < b for two str: Python compares code point by code point
CodePoints == "0123456789ABCDEFGHIJKLMNOPQRSTUVWXYZ_abcdefghijklmnopqrstuvwxyz"

Ord(c) ==
    IF \E i \in 1..Len(CodePoints) : SubSeq(CodePoints, i, i) = c
    THEN CHOOSE i \in 1..Len(CodePoints) : SubSeq(CodePoints, i, i) = c
    ELSE 0

StrLess(a, b) ==
    LET n == IF Len(a) < Len(b) THEN Len(a) ELSE Len(b)
        diff == {i \in 1..n : SubSeq(a, i, i) # SubSeq(b, i, i)}
    IN  IF diff = {} THEN Len(a) < Len(b)
        ELSE LET i == CHOOSE j \in diff : \A k \in diff : j <= k
             IN  Ord(SubSeq(a, i, i)) < Ord(SubSeq(b, i, i))

\* the rows taken in the order of the source sequence
SortedByType_Mutant(rows) == rows

\* sorted(rows, key=lambda x: x["type"]): a stable sort
SortedByType(rows) ==
    LET key(r) == Item(r, "type").v
        insert(acc, r) ==
            LET k == Cardinality({i \in 1..Len(acc) : ~StrLess(key(r), key(acc[i]))})
            IN  SubSeq(acc, 1, k) \o <<r>> \o SubSeq(acc, k + 1, Len(acc))
    IN  Fold(insert, <<>>, rows)

\* lines 500-505
DNSDetails(self) ==
    LET rows == Elements(Get(self.data, "last_dns_records", EmptyList))
        soa(s, dns_record) ==
            IF s.raised \/ ~PyEq(Item(dns_record, "type"), S("SOA")) THEN s
            ELSE IF ~Has(dns_record, "rname") THEN Raise(s)
            ELSE _add(s, "dns_records", [name |-> S("SOA_RNAME"),
                                         value |-> Item(dns_record, "rname")])
        body(s, dns_record) ==
            IF ~Has(dns_record, "value") THEN Raise(s)
            ELSE soa(_add(s, "dns_records", [name |-> Item(dns_record, "type"),
                                             value |-> Item(dns_record, "value")]),
                     dns_record)
        loop(s) ==
            IF s.raised THEN s
            ELSE IF rows.t # "list" THEN Raise(s)
            ELSE IF \E i \in 1..Len(rows.v) :
                        ~HasAll(rows.v[i], {"type"}) \/ Item(rows.v[i], "type").t # "str"
            THEN Raise(s)
            ELSE ForEach(body, s, SortedByType(rows.v))
    IN  loop(_add(self, "dns_records", [name |-> S("last_updated"),
                                        key |-> S("last_dns_record_date"),
                                        is_timestamp |-> TRUE]))

\* the three rules applied only when last_final_url is present
RelatedURLs_Mutant(self) ==
    IF ~Has(self.data, "last_final_url") THEN self
    ELSE AddAll(self, <<
        <<"linked_urls", [name |-> S("final_url"), key |-> S("last_final_url")]>>,
        <<"linked_urls", [name |-> S("redirection_chain")]>>,
        <<"linked_urls", [name |-> S("outgoing_links")]>> >>)

\* lines 508-510
RelatedURLs(self) ==
    AddAll(self, <<
        <<"linked_urls", [name |-> S("final_url"), key |-> S("last_final_url")]>>,
        <<"linked_urls", [name |-> S("redirection_chain")]>>,
        <<"linked_urls", [name |-> S("outgoing_links")]>> >>)

\* lines 513-520
LastResponse(self) ==
    LET headers == Get(self.data, "last_http_response_headers", EmptyDict)
        cookies == Get(self.data, "last_http_response_cookies", EmptyDict)
        \* "for k, v in d.items(): self._add(group, k, value=v)"
        each(s, d, group) ==
            IF s.raised THEN s
            ELSE IF d.t # "dict" THEN Raise(s)
            ELSE AddAll(s, [i \in 1..Len(d.v) |->
                                <<group, [name |-> S(d.v[i][1]), value |-> d.v[i][2]]>>])
    IN  each(each(AddAll(self, <<
                <<"last_response", [name |-> S("has_content")]>>,
                <<"last_response", [name |-> S("content_sha256"),
                                    key |-> S("last_http_response_content_sha256")]>>,
                <<"last_response", [name |-> S("response_code"),
                                    key |-> S("last_http_response_code")]>>,
                <<"last_response", [name |-> S("content_length"),
                                    key |-> S("last_http_response_content_length")]>> >>),
                  headers, "last_response_headers"),
             cookies, "last_response_cookies")

\* lines 523-537
InfoRules == <<
    <<"info", [name |-> S("names")]>>,
    <<"info", [name |-> S("labels"), key |-> S("tags")]>>,
    <<"info", [name |-> S("jarm_hash"), key |-> S("jarm")]>>,
    <<"info", [name |-> S("url")]>>,
    <<"info", [name |-> S("title")]>>,
    <<"info", [name |-> S("tld")]>>,
    <<"info", [name |-> S("regional_internet_registry")]>>,
    <<"info", [name |-> S("registrar")]>>,
    <<"info", [name |-> S("country")]>>,
    <<"info", [name |-> S("continent")]>>,
    <<"info", [name |-> S("network")]>>,
    <<"info", [name |-> S("whois_date"), is_timestamp |-> TRUE]>>,
    <<"info", [name |-> S("whois")]>>,
    <<"info", [name |-> S("autonomous_system_owner"), key |-> S("as_owner")]>>,
    <<"info", [name |-> S("autonomous_system_number"), key |-> S("asn")]>> >>

\* the rules applied in the order of the document's keys
GeneralInfo_Mutant(self) ==
    LET reads(rule) == ((rule[2] @@ [key |-> rule[2].name]).key).v
        pick(acc, k) == acc \o SelectSeq(InfoRules, LAMBDA rule : reads(rule) = k)
    IN  AddAll(self, Fold(pick, <<>>, Keys(self.data)))

GeneralInfo(self) == AddAll(self, InfoRules)

\* the attribute order of lines 547 and 552 (RFC 5280 / RFC 2253)
DNOrder == <<"CN", "L", "ST", "O", "OU", "C", "STREET", "DC", "UID">>

\* the attributes rendered in the mapping's own key order
DistinguishedName_Mutant(field) ==
    LET step(acc, kv) == IF Truthy(kv[2]) /\ \E i \in 1..Len(DNOrder) : DNOrder[i] = kv[1]
                         THEN Append(acc, kv[1] \o "=" \o Str(kv[2]))
                         ELSE acc
    IN  Join(",", Fold(step, <<>>, field.v))

\* ",".join([f"{k}={field[k]}" for k in DNOrder if field.get(k, None)])
DistinguishedName(field) ==
    LET step(acc, k) == IF Truthy(Get(field, k, None))
                        THEN Append(acc, k \o "=" \o Str(Item(field, k)))
                        ELSE acc
    IN  Join(",", Fold(step, <<>>, DNOrder))

\* lines 540-557
CertificateInfo(self) ==
    LET cert == Get(self.data, "last_https_certificate", EmptyDict)
        dn(s, field) ==
            IF s.raised THEN s
            ELSE IF cert.t # "dict" \/ ~Has(cert, field) \/ Item(cert, field).t # "dict"
            THEN Raise(s)
            ELSE _add(s, "certificate_info",
                      [name |-> S(field), value |-> S(DistinguishedName(Item(cert, field)))])
        validity(s, name, bound) ==
            IF s.raised THEN s
            ELSE IF ~Has(cert, "validity") \/ ~HasAll(Item(cert, "validity"), {bound})
            THEN Raise(s)
            ELSE _add(s, "certificate_info",
                      [name |-> S(name), value |-> Item(Item(cert, "validity"), bound)])
    IN  IF ~Truthy(cert) THEN self
        ELSE validity(validity(dn(dn(_add(self, "certificate_info",
                                          [name |-> S("last_updated"),
                                           key |-> S("last_https_certificate_date"),
                                           is_timestamp |-> TRUE]),
                                     "subject"), "issuer"),
                               "validity_not_after", "not_after"),
                      "validity_not_before", "not_before")

\* lines 560-562
RuleDescriptions(self) ==
    AddAll(self, <<
        <<"yara_descriptions", [key |-> S("crowdsourced_yara_results"),
                                name_key |-> S("rule_name"),
                                value_key |-> S("description")]>>,
        <<"sigma_descriptions", [key |-> S("sigma_analysis_results"),
                                 name_key |-> S("rule_title"),
                                 value_key |-> S("rule_description")]>> >>)

\* lines 565-566
Trackers(self) ==
    LET trackers == Get(self.data, "trackers", EmptyDict)
        body(s, tracker) ==
            _add(s, "trackers", [name |-> tracker, value_key |-> S("url"), data |-> trackers])
    IN  IF Elements(trackers).t # "list" THEN Raise(self)
        ELSE ForEach(body, self, Elements(trackers).v)

\* the groups taken in reverse order
Flattened_Mutant(enr) ==
    [i \in 1..Len(enr) |->
        [group |-> enr[Len(enr) + 1 - i][1],
         values |-> [j \in 1..Len(enr[Len(enr) + 1 - i][2]) |->
                        [name |-> enr[Len(enr) + 1 - i][2][j][1],
                         values |-> enr[Len(enr) + 1 - i][2][j][2]]]]]

\* lines 257-259: {group: {name: [vals]}} ->
\*   [{"group": group, "values": [{"name": name, "values": vals}]}]
Flattened(enr) ==
    [i \in 1..Len(enr) |->
        [group |-> enr[i][1],
         values |-> [j \in 1..Len(enr[i][2]) |->
                        [name |-> enr[i][2][j][1], values |-> enr[i][2][j][2]]]]]

(***************************************************************************)
(* Source documents.  Each key, when present, holds a value of the shape   *)
(* the upstream service gives it; any key at any level may be absent.      *)
(***************************************************************************)
MaxVerdicts == 2
MaxAttrs == 2
MaxRows == 2

\* all sequences over P of length at most n
SeqsUpTo(P, n) == UNION {[1..m -> P] : m \in 0..n}

\* the dict {"k1": seq[1], "k2": seq[2], ...}
Keyed(prefix, seq) == D([i \in 1..Len(seq) |-> <<prefix \o ToString(i), seq[i]>>])

\* d without key k; d with its keys in reverse order
Remove(d, k) ==
    LET step(acc, kv) == IF kv[1] = k THEN acc ELSE Append(acc, kv)
    IN  D(Fold(step, <<>>, d.v))

Reverse(d) == D([i \in 1..Len(d.v) |-> d.v[Len(d.v) + 1 - i]])

Rotate(d) == D([i \in 1..Len(d.v) |-> d.v[(i % Len(d.v)) + 1]])

VerdictShapes ==
    { D(<< <<"category", S("malicious")>>, <<"sandbox_name", S("Y")>>,
           <<"malware_names", L(<<S("Foo")>>)>> >>),
      D(<< <<"category", S("malicious")>>, <<"sandbox_name", S("X")>>,
           <<"confidence", N(90)>> >>),
      D(<< <<"category", S("suspicious")>>, <<"sandbox_name", S("X")>> >>),
      D(<< <<"category", S("suspicious")>>, <<"sandbox_name", S("Z")>> >>),
      D(<< <<"category", S("harmless")>>, <<"sandbox_name", S("Z")>> >>) }

SandboxDocuments ==
    { D(<< <<"sandbox_verdicts", Keyed("v", vs)>> >>) : vs \in SeqsUpTo(VerdictShapes, MaxVerdicts) }

\* certificate fields: every ordering of up to MaxAttrs distinct attributes
AttrPairs == { <<"O", S("Acme")>>, <<"CN", S("acme.test")>>, <<"C", S("US")>>, <<"ST", S("")>> }

CertFields ==
    { D(f) : f \in { g \in SeqsUpTo(AttrPairs, MaxAttrs) :
                        \A i, j \in 1..Len(g) : i # j => g[i][1] # g[j][1] } }

FixedField == D(<< <<"O", S("Trust CA")>>, <<"CN", S("Root R1")>> >>)

Validity == D(<< <<"not_after", S("2025-01-01 00:00:00")>>,
                 <<"not_before", S("2024-01-01 00:00:00")>> >>)

Certificate(subject, issuer) ==
    D(<< <<"last_https_certificate_date", N(1700000000)>>,
         <<"last_https_certificate",
           D(<< <<"issuer", issuer>>, <<"subject", subject>>, <<"validity", Validity>> >>)>> >>)

CertDocuments ==
    { Certificate(f, FixedField) : f \in CertFields }
    \cup { Certificate(FixedField, f) : f \in CertFields }

\* counts and literals that may be falsy
StatValues == { N(0), N(2), S(""), L(<<>>), None }

FalsyDocuments ==
    { D(<< <<"last_analysis_stats", D(<< <<"suspicious", s>>, <<"malicious", m>> >>)>>,
           <<"sigma_analysis_stats", D(<< <<"critical", m>>, <<"high", s>> >>)>> >>)
        : s \in StatValues, m \in {N(0), N(1)} }
    \cup
    { D(<< <<"crowdsourced_ids_stats",
             L(<< D(<< <<"high", a>>, <<"info", N(1)>> >>), D(<< <<"high", b>> >>) >>)>> >>)
        : a \in StatValues, b \in {N(0), N(3)} }

YaraRows ==
    { D(<< <<"source", S("GitHub")>>, <<"rule_name", S("rule_a")>>,
           <<"description", S("detects a")>> >>),
      D(<< <<"source", S("Malpedia")>>, <<"rule_name", S("rule_b")>>,
           <<"description", S("detects b")>> >>),
      D(<< <<"source", S("GitHub")>>, <<"rule_name", S("rule_c")>> >>),
      D(<< <<"rule_name", S("rule_a")>>, <<"description", S("detects a")>> >>) }

YaraDocuments ==
    { D(<< <<"crowdsourced_yara_results", L(rows)>> >>) : rows \in SeqsUpTo(YaraRows, MaxRows) }

\* a well-formed document of a file / domain / URL report
Sample ==
    D(<< <<"last_analysis_stats", D(<< <<"malicious", N(2)>>, <<"suspicious", N(1)>> >>)>>,
         <<"sandbox_verdicts",
           D(<< <<"C2AE", D(<< <<"category", S("suspicious")>>, <<"sandbox_name", S("C2AE")>> >>)>>,
                <<"Zenbox", D(<< <<"category", S("malicious")>>, <<"sandbox_name", S("Zenbox")>>,
                                 <<"malware_names", L(<<S("Foo"), S("Bar")>>)>>,
                                 <<"confidence", N(81)>> >>)>> >>)>>,
         <<"crowdsourced_ai_results",
           L(<< D(<< <<"source", S("NICS")>>, <<"category", S("code_insight")>>,
                     <<"verdict", S("malicious")>>, <<"analysis", S("drops a payload")>> >>) >>)>>,
         <<"popular_threat_classification",
           D(<< <<"suggested_threat_label", S("trojan.foo")>>,
                <<"popular_threat_name", L(<< D(<< <<"value", S("foo")>>, <<"count", N(4)>> >>) >>)>>,
                <<"popular_threat_category", L(<< D(<< <<"value", S("trojan")>> >>) >>)>> >>)>>,
         <<"reputation", N(7)>>,
         <<"capabilities_tags", L(<<S("inject"), S("inject")>>)>>,
         <<"popularity_ranks",
           D(<< <<"Alexa", D(<< <<"rank", N(10)>>, <<"timestamp", N(1700000000)>> >>)>> >>)>>,
         <<"categories", D(<< <<"Sophos", S("malware")>>, <<"BitDefender", S("malware")>> >>)>>,
         <<"targeted_brand", D(<< <<"Phishtank", S("Acme")>> >>)>>,
         <<"sigma_analysis_stats", D(<< <<"critical", N(0)>>, <<"high", N(1)>>,
                                        <<"medium", N(0)>>, <<"low", N(0)>> >>)>>,
         <<"crowdsourced_ids_stats", D(<< <<"high", N(0)>>, <<"medium", N(0)>>,
                                          <<"low", N(1)>>, <<"info", N(0)>> >>)>>,
         <<"crowdsourced_context",
           L(<< D(<< <<"title", S("C2 server")>>, <<"source", S("ArcSight")>>,
                     <<"details", S("seen as C2")>> >>) >>)>>,
         <<"malware_config", D(<< <<"family", S("foo")>>, <<"c2", L(<<S("a.test"), S("b.test")>>)>> >>)>>,
         <<"network_infrastructure", S("hosted on cdn")>>,
         <<"traffic_inspection",
           D(<< <<"http", L(<< D(<< <<"url", S("http://a.test/x")>>, <<"method", S("GET")>>,
                                    <<"remote_host", S("")>>, <<"user-agent", S("curl")>> >>) >>)>> >>)>>,
         <<"crowdsourced_yara_results",
           L(<< D(<< <<"source", S("GitHub")>>, <<"rule_name", S("rule_a")>>,
                     <<"description", S("detects a")>> >>) >>)>>,
         <<"last_analysis_results",
           D(<< <<"EngA", D(<< <<"category", S("suspicious")>>, <<"engine_name", S("EngA")>>,
                               <<"result", S("gen")>> >>)>>,
                <<"EngB", D(<< <<"category", S("malicious")>>, <<"engine_name", S("EngB")>>,
                               <<"result", S("Trojan.Foo")>>, <<"engine_update", S("20240101")>> >>)>> >>)>>,
         <<"sigma_analysis_results",
           L(<< D(<< <<"rule_level", S("high")>>, <<"rule_title", S("Susp Run")>>,
                     <<"rule_author", S("jd")>>, <<"rule_description", S("runs things")>> >>) >>)>>,
         <<"crowdsourced_ids_results",
           L(<< D(<< <<"alert_severity", S("high")>>, <<"rule_category", S("trojan")>>,
                     <<"rule-msg", S("ET foo")>>,
                     <<"alert_context", L(<< D(<< <<"dest_ip", S("10.0.0.1")>>,
                                                  <<"dest_port", N(80)>> >>) >>)>> >>) >>)>>,
         <<"last_dns_record_date", N(1700000000)>>,
         <<"last_dns_records",
           L(<< D(<< <<"type", S("SOA")>>, <<"value", S("ns.a.test")>>, <<"rname", S("admin.a.test")>> >>),
                D(<< <<"type", S("A")>>, <<"value", S("10.0.0.1")>> >>) >>)>>,
         <<"last_final_url", S("http://a.test/")>>,
         <<"redirection_chain", L(<<S("http://a.test")>>)>>,
         <<"has_content", B(TRUE)>>,
         <<"last_http_response_code", N(200)>>,
         <<"last_http_response_headers", D(<< <<"Server", S("nginx")>> >>)>>,
         <<"last_http_response_cookies", D(<< <<"sid", S("1")>> >>)>>,
         <<"names", L(<<S("a.exe"), S("b.exe")>>)>>,
         <<"tags", L(<<S("peexe")>>)>>,
         <<"whois_date", N(0)>>,
         <<"asn", N(64500)>>,
         <<"last_https_certificate_date", N(1700000000)>>,
         <<"last_https_certificate",
           D(<< <<"subject", D(<< <<"O", S("Acme")>>, <<"CN", S("acme.test")>> >>)>>,
                <<"issuer", FixedField>>, <<"validity", Validity>> >>)>>,
         <<"trackers",
           D(<< <<"Google Tag Manager",
                  L(<< D(<< <<"url", S("http://gtm.test/a")>>, <<"id", S("G-1")>> >>) >>)>> >>)>> >>)

\* a second well-formed document, of an IP address report
Sample2 ==
    D(<< <<"asn", N(64501)>>, <<"country", S("CA")>>,
         <<"last_analysis_stats", D(<< <<"malicious", N(0)>>, <<"suspicious", N(0)>> >>)>>,
         <<"tags", L(<<S("cdn")>>)>> >>)

\* Sample with its keys permuted and with each single key removed
SampleDocuments ==
    {Sample, Sample2, Reverse(Sample), Rotate(Sample), Reverse(Sample2)}
    \cup { Remove(Sample, Keys(Sample)[i]) : i \in 1..Len(Sample.v) }

\* the documents of Sample's shape that lack one nested key
Without(d, key, sub(_)) ==
    D([i \in 1..Len(d.v) |->
         IF d.v[i][1] = key THEN <<key, sub(d.v[i][2])>> ELSE d.v[i]])

DropSubject(cert) == Remove(cert, "subject")
DropValidity(cert) == Remove(cert, "validity")
DropUrl(ti) == D(<< <<"http", L(<< Remove(Item(ti, "http").v[1], "url") >>)>> >>)
DropTitle(rows) == L(<< Remove(rows.v[1], "title") >>)
DropCategory(sv) == D(<< <<"C2AE", Remove(Item(sv, "C2AE"), "category")>> >>)
DropConfidence(sv) == D(<< <<"Zenbox", Remove(Item(sv, "Zenbox"), "confidence")>> >>)
DropDescription(rows) == L(<< Remove(rows.v[1], "description") >>)

PartialDocuments ==
    { Without(Sample, "last_https_certificate", DropSubject),
      Without(Sample, "last_https_certificate", DropValidity),
      Without(Sample, "traffic_inspection", DropUrl),
      Without(Sample, "crowdsourced_context", DropTitle),
      Without(Sample, "sandbox_verdicts", DropCategory),
      Without(Sample, "sandbox_verdicts", DropConfidence),
      Without(Sample, "crowdsourced_yara_results", DropDescription) }

\* AI results: two of one source and category, one of another source
AIRows ==
    { D(<< <<"source", S("NICS")>>, <<"category", S("code_insight")>>,
           <<"verdict", S("malicious")>>, <<"analysis", S("drops a payload")>> >>),
      D(<< <<"source", S("NICS")>>, <<"category", S("code_insight")>>,
           <<"verdict", S("malicious")>>, <<"analysis", S("opens a socket")>> >>),
      D(<< <<"source", S("Hispasec")>>, <<"category", S("code_insight")>>,
           <<"verdict", S("benign")>>, <<"analysis", S("an installer")>> >>) }

AIDocuments ==
    { D(<< <<"crowdsourced_ai_results", L(rows)>> >>) : rows \in SeqsUpTo(AIRows, MaxRows) }

\* DNS records in any order, with and without the date of the last update
DNSRows ==
    { D(<< <<"type", S("A")>>, <<"value", S("10.0.0.1")>> >>),
      D(<< <<"type", S("A")>>, <<"value", S("10.0.0.2")>> >>),
      D(<< <<"type", S("MX")>>, <<"value", S("mail.a.test")>> >>),
      D(<< <<"type", S("SOA")>>, <<"value", S("ns.a.test")>>, <<"rname", S("admin.a.test")>> >>),
      D(<< <<"type", S("TXT")>>, <<"value", S("v=spf1")>> >>) }

DNSDocuments ==
    { D(<< <<"last_dns_records", L(rows)>> >>) : rows \in SeqsUpTo(DNSRows, MaxRows) }
    \cup { D(<< <<"last_dns_records", L(rows)>>, <<"last_dns_record_date", N(1700000000)>> >>)
              : rows \in SeqsUpTo(DNSRows, MaxRows) }

Documents ==
    SandboxDocuments \cup CertDocuments \cup FalsyDocuments \cup YaraDocuments
    \cup AIDocuments \cup DNSDocuments \cup SampleDocuments \cup PartialDocuments

\* the documents a run may be given: all of them, or Sample's family only
Pool(p) == IF p = "sample" THEN SampleDocuments ELSE Documents

(***************************************************************************)
(* State.  data, _enrichment and enrichment are the fields of the Enricher *)
(* under construction and pc the statement of __init__ / _enrich reached.  *)
(* emitted lists the (group, name, value) triples _add has filed so far.   *)
(* runs keeps the document and output of the first completed construction *)
(* when pool is "sample", and later tells that the Enricher is not the     *)
(* first one constructed: no action reads either.                          *)
(***************************************************************************)
VARIABLES data, _enrichment, enrichment, emitted, pc, pool, runs, later
vars == <<data, _enrichment, enrichment, emitted, pc, pool, runs, later>>

Self == [data |-> data, _enrichment |-> _enrichment, emitted |-> emitted, raised |-> FALSE]

\* the accumulator of a new instance starts from the last group of the
\* previous instance
Construct_Mutant(d) ==
    /\ data' = d
    /\ _enrichment' = SubSeq(_enrichment, Len(_enrichment), Len(_enrichment))
    /\ enrichment' = <<>>
    /\ emitted' = <<>>
    /\ pc' = "summary"

\* lines 247-249: the fields of a new Enricher
Construct(d) ==
    /\ data' = d
    /\ _enrichment' = <<>>
    /\ enrichment' = <<>>
    /\ emitted' = <<>>
    /\ pc' = "summary"

InitPool(p) ==
    /\ pool = p
    /\ runs = <<>>
    /\ later = FALSE
    /\ data \in Pool(p)
    /\ _enrichment = <<>>
    /\ enrichment = <<>>
    /\ emitted = <<>>
    /\ pc = "summary"

Init == InitPool("all")
InitSample == InitPool("sample")

\* one block of _enrich: self after the block, or the exception leaving __init__
Block(at, next, s) ==
    /\ pc = at
    /\ _enrichment' = s._enrichment
    /\ emitted' = s.emitted
    /\ pc' = IF s.raised THEN "raised" ELSE next
    /\ UNCHANGED <<data, enrichment, pool, runs, later>>

EnrichSummary == Block("summary", "alerts", Summary(Self))
EnrichAlerts == Block("alerts", "context", Alerts(Self))
EnrichContext == Block("context", "config", CrowdsourcedContext(Self))
EnrichConfig == Block("config", "networking", ConfigExtraction(Self))
EnrichNetworking == Block("networking", "yara", Networking(Self))
EnrichYara == Block("yara", "popularity", YaraHits(Self))
EnrichPopularity == Block("popularity", "sandboxes", Popularity(Self))
EnrichSandboxes == Block("sandboxes", "av", SandboxResults(Self))
EnrichAV == Block("av", "sigma", AVResults(Self))
EnrichSigma == Block("sigma", "ids", SigmaResults(Self))
EnrichIDS == Block("ids", "ai", IDSDetails(Self))
EnrichAI == Block("ai", "dns", AIResults(Self))
EnrichDNS == Block("dns", "urls", DNSDetails(Self))
EnrichURLs == Block("urls", "response", RelatedURLs(Self))
EnrichResponse == Block("response", "info", LastResponse(Self))
EnrichInfo == Block("info", "certificate", GeneralInfo(Self))
EnrichCertificate == Block("certificate", "descriptions", CertificateInfo(Self))
EnrichDescriptions == Block("descriptions", "trackers", RuleDescriptions(Self))
EnrichTrackers == Block("trackers", "flatten", Trackers(Self))

\* lines 257-259
Flatten ==
    /\ pc = "flatten"
    /\ enrichment' = Flattened(_enrichment)
    /\ pc' = "done"
    /\ runs' = IF pool = "sample" /\ runs = <<>>
               THEN <<[data |-> data, enrichment |-> Flattened(_enrichment)]>>
               ELSE runs
    /\ UNCHANGED <<data, _enrichment, emitted, pool, later>>

\* line 234: the next request constructs a new Enricher
New ==
    /\ pc \in {"done", "raised"}
    /\ \E d \in Pool(pool) : Construct(d)
    /\ later' = TRUE
    /\ UNCHANGED <<pool, runs>>

Next ==
    \/ EnrichSummary \/ EnrichAlerts \/ EnrichContext \/ EnrichConfig
    \/ EnrichNetworking \/ EnrichYara \/ EnrichPopularity \/ EnrichSandboxes
    \/ EnrichAV \/ EnrichSigma \/ EnrichIDS \/ EnrichAI \/ EnrichDNS
    \/ EnrichURLs \/ EnrichResponse \/ EnrichInfo \/ EnrichCertificate
    \/ EnrichDescriptions \/ EnrichTrackers \/ Flatten \/ New

Spec == Init /\ [][Next]_vars
SpecSample == InitSample /\ [][Next]_vars

(***************************************************************************)
(* Properties.                                                             *)
(***************************************************************************)
\* the findings of group g in an output, <<>> when the group is absent
GroupValues(out, g) ==
    IF \E i \in 1..Len(out) : out[i].group = g
    THEN out[CHOOSE i \in 1..Len(out) : out[i].group = g].values
    ELSE <<>>

\* the position of the finding called name in a list of findings, 0 when absent
FindingIndex(findings, name) ==
    IF \E i \in 1..Len(findings) : PyEq(findings[i].name, name)
    THEN CHOOSE i \in 1..Len(findings) : PyEq(findings[i].name, name)
    ELSE 0

\* the values of finding (g, name) in an output, <<>> when the finding is absent
FindingValues(out, g, name) ==
    IF FindingIndex(GroupValues(out, g), name) = 0 THEN <<>>
    ELSE GroupValues(out, g)[FindingIndex(GroupValues(out, g), name)].values

\* an output as one list of [group, name, values], in output order
Findings(out) ==
    LET step(acc, grp) == acc \o [j \in 1..Len(grp.values) |->
            [group |-> grp.group, name |-> grp.values[j].name, values |-> grp.values[j].values]]
    IN  Fold(step, <<>>, out)

NoRepeats(vals) == \A i, j \in 1..Len(vals) : i # j => ~PyEq(vals[i], vals[j])

\* C1: building the enrichment never raises, whatever keys the document lacks
C1_NeverRaises == pc # "raised"

\* C2: at every point of every construction, and in the flattened output, the
\* value list of every (group, name) pair holds no two equal values
C2_Dedup ==
    /\ \A i \in 1..Len(_enrichment) : \A j \in 1..Len(_enrichment[i][2]) :
           NoRepeats(_enrichment[i][2][j][2])
    /\ \A i \in 1..Len(enrichment) : \A j \in 1..Len(enrichment[i].values) :
           NoRepeats(enrichment[i].values[j].values)

\* a finished run in which the same value was filed twice under one (group, name)
C2_Witness ==
    /\ pc = "done"
    /\ \E i, j \in 1..Len(emitted) :
           /\ i < j
           /\ emitted[i].group = emitted[j].group
           /\ PyEq(emitted[i].name, emitted[j].name)
           /\ PyEq(emitted[i].value, emitted[j].value)
           /\ Contains(FindingValues(enrichment, emitted[i].group, emitted[i].name),
                       emitted[i].value)

\* the position in emitted of the first triple that satisfies P, 0 when none does
FirstEmitted(P(_)) ==
    IF \E k \in 1..Len(emitted) : P(emitted[k])
    THEN CHOOSE k \in 1..Len(emitted) : P(emitted[k]) /\ \A m \in 1..(k - 1) : ~P(emitted[m])
    ELSE 0

FirstGroup(g) == FirstEmitted(LAMBDA e : e.group = g)
FirstName(g, n) == FirstEmitted(LAMBDA e : e.group = g /\ PyEq(e.name, n))
FirstValue(g, n, v) ==
    FirstEmitted(LAMBDA e : e.group = g /\ PyEq(e.name, n) /\ PyEq(e.value, v))

\* C3: in the output, groups, the findings of a group and the values of a
\* finding each stand in the order in which they first received a value, every
\* emitted group, name and value is there, and the output is the accumulator
\* entry for entry
C3_FirstOccurrenceOrder ==
    pc = "done" =>
      /\ \A k \in 1..Len(emitted) :
             Contains(FindingValues(enrichment, emitted[k].group, emitted[k].name),
                      emitted[k].value)
      /\ \A i \in 1..Len(enrichment) :
           /\ FirstGroup(enrichment[i].group) > 0
           /\ \A i2 \in 1..Len(enrichment) :
                  i < i2 => FirstGroup(enrichment[i].group) < FirstGroup(enrichment[i2].group)
           /\ \A j \in 1..Len(enrichment[i].values) :
                LET g == enrichment[i].group
                    f == enrichment[i].values[j]
                IN  /\ FirstName(g, f.name) > 0
                    /\ \A j2 \in 1..Len(enrichment[i].values) :
                           j < j2 => FirstName(g, f.name)
                                       < FirstName(g, enrichment[i].values[j2].name)
                    /\ \A v \in 1..Len(f.values) :
                         /\ FirstValue(g, f.name, f.values[v]) > 0
                         /\ \A v2 \in 1..Len(f.values) :
                                v < v2 => FirstValue(g, f.name, f.values[v])
                                            < FirstValue(g, f.name, f.values[v2])
      /\ Len(enrichment) = Len(_enrichment)
      /\ \A i \in 1..Len(enrichment) :
           /\ enrichment[i].group = _enrichment[i][1]
           /\ Len(enrichment[i].values) = Len(_enrichment[i][2])
           /\ \A j \in 1..Len(enrichment[i].values) :
                /\ enrichment[i].values[j].name = _enrichment[i][2][j][1]
                /\ enrichment[i].values[j].values = _enrichment[i][2][j][2]

\* an output of several groups, findings and values whose group order is not
\* the alphabetical one
C3_Witness ==
    /\ pc = "done"
    /\ \E i, i2 \in 1..Len(enrichment) :
           i < i2 /\ StrLess(enrichment[i2].group, enrichment[i].group)
    /\ \E i \in 1..Len(enrichment) :
           /\ Len(enrichment[i].values) >= 2
           /\ \E j \in 1..Len(enrichment[i].values) : Len(enrichment[i].values[j].values) >= 2

\* d1 and d2 hold the same key/value pairs, in any order
SamePairs(d1, d2) ==
    /\ Len(d1.v) = Len(d2.v)
    /\ \A i \in 1..Len(d1.v) : \E k \in 1..Len(d2.v) : d1.v[i] = d2.v[k]

\* C4: a document that holds the key/value pairs of an earlier document, in
\* whatever order, gets the output of the earlier one
C4_KeyOrderInvariance ==
    (pc = "done" /\ runs # <<>> /\ SamePairs(data, runs[1].data))
        => enrichment = runs[1].enrichment

\* Sample's output is there and the run over Sample reversed has finished
C4_Witness ==
    /\ pc = "done" /\ later /\ runs # <<>>
    /\ runs[1].data = Sample
    /\ data = Reverse(Sample)
    /\ Len(enrichment) >= 2

\* <<group, name, key>>: the finding (group, name) is computed from the top-level
\* key; a name of "*" stands for every name of the group not listed by itself
DerivedFrom == {
    <<"summary", "av_malicious", "last_analysis_stats">>,
    <<"summary", "av_suspicious", "last_analysis_stats">>,
    <<"summary", "sandbox_malicious", "sandbox_verdicts">>,
    <<"summary", "sandbox_suspicious", "sandbox_verdicts">>,
    <<"summary", "ai_malicious", "crowdsourced_ai_results">>,
    <<"summary", "ai_suspicious", "crowdsourced_ai_results">>,
    <<"summary", "threat", "popular_threat_classification">>,
    <<"summary", "threat_family", "popular_threat_classification">>,
    <<"summary", "threat_category", "popular_threat_classification">>,
    <<"summary", "reputation", "reputation">>,
    <<"summary", "capabilities", "capabilities_tags">>,
    <<"summary", "labels", "popularity_ranks">>,
    <<"summary", "labels", "categories">>,
    <<"summary", "targeted_brand", "targeted_brand">>,
    <<"alerts", "sigma_alerts_critical", "sigma_analysis_stats">>,
    <<"alerts", "sigma_alerts_high", "sigma_analysis_stats">>,
    <<"alerts", "sigma_alerts_medium", "sigma_analysis_stats">>,
    <<"alerts", "sigma_alerts_low", "sigma_analysis_stats">>,
    <<"alerts", "ids_alerts_high", "crowdsourced_ids_stats">>,
    <<"alerts", "ids_alerts_medium", "crowdsourced_ids_stats">>,
    <<"alerts", "ids_alerts_low", "crowdsourced_ids_stats">>,
    <<"alerts", "ids_alerts_info", "crowdsourced_ids_stats">>,
    <<"crowdsourced_context", "*", "crowdsourced_context">>,
    <<"configuration_extraction", "*", "malware_config">>,
    <<"networking", "infrastructure", "network_infrastructure">>,
    <<"networking", "http_request", "traffic_inspection">>,
    <<"networking", "user-agent", "traffic_inspection">>,
    <<"yara_hits", "*", "crowdsourced_yara_results">>,
    <<"popularity_ranks", "*", "popularity_ranks">>,
    <<"sandboxes", "*", "sandbox_verdicts">>,
    <<"security_vendors", "*", "last_analysis_results">>,
    <<"sigma_alerts", "*", "sigma_analysis_results">>,
    <<"ids_alerts", "*", "crowdsourced_ids_results">>,
    <<"ai_analysis", "*", "crowdsourced_ai_results">>,
    <<"dns_records", "last_updated", "last_dns_record_date">>,
    <<"dns_records", "*", "last_dns_records">>,
    <<"linked_urls", "final_url", "last_final_url">>,
    <<"linked_urls", "redirection_chain", "redirection_chain">>,
    <<"linked_urls", "outgoing_links", "outgoing_links">>,
    <<"last_response", "has_content", "has_content">>,
    <<"last_response", "content_sha256", "last_http_response_content_sha256">>,
    <<"last_response", "response_code", "last_http_response_code">>,
    <<"last_response", "content_length", "last_http_response_content_length">>,
    <<"last_response_headers", "*", "last_http_response_headers">>,
    <<"last_response_cookies", "*", "last_http_response_cookies">>,
    <<"info", "names", "names">>,
    <<"info", "labels", "tags">>,
    <<"info", "jarm_hash", "jarm">>,
    <<"info", "url", "url">>,
    <<"info", "title", "title">>,
    <<"info", "tld", "tld">>,
    <<"info", "regional_internet_registry", "regional_internet_registry">>,
    <<"info", "registrar", "registrar">>,
    <<"info", "country", "country">>,
    <<"info", "continent", "continent">>,
    <<"info", "network", "network">>,
    <<"info", "whois_date", "whois_date">>,
    <<"info", "whois", "whois">>,
    <<"info", "autonomous_system_owner", "as_owner">>,
    <<"info", "autonomous_system_number", "asn">>,
    <<"certificate_info", "last_updated", "last_https_certificate_date">>,
    <<"certificate_info", "last_updated", "last_https_certificate">>,
    <<"certificate_info", "subject", "last_https_certificate">>,
    <<"certificate_info", "issuer", "last_https_certificate">>,
    <<"certificate_info", "validity_not_after", "last_https_certificate">>,
    <<"certificate_info", "validity_not_before", "last_https_certificate">>,
    <<"yara_descriptions", "*", "crowdsourced_yara_results">>,
    <<"sigma_descriptions", "*", "sigma_analysis_results">>,
    <<"trackers", "*", "trackers">> }

\* finding f is derived from the top-level key k
Derived(f, k) ==
    LET n == IF f.name.t = "str" THEN f.name.v ELSE "*"
    IN  \/ <<f.group, n, k>> \in DerivedFrom
        \/ /\ <<f.group, "*", k>> \in DerivedFrom
           /\ ~\E e \in DerivedFrom : e[1] = f.group /\ e[2] = n

\* the findings of an output that are not derived from k, in output order
Kept(out, k) == SelectSeq(Findings(out), LAMBDA f : ~Derived(f, k))

\* the key whose removal from the first document gives the current one
\* ("" when there is none)
Removed ==
    IF runs # <<>> /\ \E i \in 1..Len(runs[1].data.v) :
                          data = Remove(runs[1].data, runs[1].data.v[i][1])
    THEN runs[1].data.v[CHOOSE i \in 1..Len(runs[1].data.v) :
                            data = Remove(runs[1].data, runs[1].data.v[i][1])][1]
    ELSE ""

\* C5 as stated: the run over a document less one top-level key does not raise,
\* keeps every finding not derived from the key, values and order included,
\* and has no finding derived from the key
C5_OnlyOmits ==
    (pc \in {"done", "raised"} /\ Removed # "") =>
        /\ pc = "done"
        /\ Kept(enrichment, Removed) = Kept(runs[1].enrichment, Removed)
        /\ \A i \in 1..Len(Findings(enrichment)) : ~Derived(Findings(enrichment)[i], Removed)

\* what a finding derived from the removed key k may still be: the default of
\* reputation, the zero count of sandbox_malicious, or the labels that the
\* other source of summary/labels contributes
Remainder(f, k) ==
    \/ /\ f.group = "summary" /\ f.name = S("reputation") /\ k = "reputation"
       /\ f.values = <<N(0)>>
    \/ /\ f.group = "summary" /\ f.name = S("sandbox_malicious") /\ k = "sandbox_verdicts"
       /\ f.values = <<N(0)>>
    \/ /\ f.group = "summary" /\ f.name = S("labels") /\ k \in {"popularity_ranks", "categories"}
       /\ f.values = SelectSeq(FindingValues(runs[1].enrichment, "summary", S("labels")),
                               LAMBDA v : Contains(f.values, v))

\* C5: the run over a document less one top-level key does not raise and keeps
\* every finding not derived from the key, values and order included; of the
\* findings derived from the key only reputation [0], sandbox_malicious [0] and
\* the labels of the other source remain
C5_OmitsOrDefaults ==
    (pc \in {"done", "raised"} /\ Removed # "") =>
        /\ pc = "done"
        /\ Kept(enrichment, Removed) = Kept(runs[1].enrichment, Removed)
        /\ \A i \in 1..Len(Findings(enrichment)) :
               Derived(Findings(enrichment)[i], Removed)
                   => Remainder(Findings(enrichment)[i], Removed)

\* the run over Sample less 'reputation' has finished after the run over Sample
C5_Witness ==
    /\ pc = "done" /\ runs # <<>>
    /\ runs[1].data = Sample
    /\ Removed = "reputation"
    /\ FindingValues(runs[1].enrichment, "summary", S("reputation")) = <<N(7)>>
    /\ FindingValues(enrichment, "summary", S("reputation")) = <<N(0)>>
    /\ Len(Kept(enrichment, Removed)) >= 2

\* the sandbox verdicts of the document, in the document's order
Verdicts == Values(Get(data, "sandbox_verdicts", EmptyDict))

SuspiciousX == D(<< <<"category", S("suspicious")>>, <<"sandbox_name", S("X")>> >>)
MaliciousY == D(<< <<"category", S("malicious")>>, <<"sandbox_name", S("Y")>>,
                   <<"malware_names", L(<<S("Foo")>>)>> >>)

\* C6: in group sandboxes the finding of a sandbox with a malicious verdict
\* stands before the finding of every sandbox with suspicious verdicts only,
\* and suspicious X listed before malicious Y ['Foo'] gives Y -> Foo, X -> suspicious
C6_MaliciousFirst ==
    pc = "done" =>
      LET sandboxes == GroupValues(enrichment, "sandboxes")
          is(r, cat) == PyEq(Item(r, "category"), S(cat))
          at(r) == FindingIndex(sandboxes, Item(r, "sandbox_name"))
          malicious(name) ==
              \E i \in 1..Len(Verdicts) :
                  is(Verdicts[i], "malicious") /\ PyEq(Item(Verdicts[i], "sandbox_name"), name)
      IN  /\ \A a, b \in 1..Len(Verdicts) :
                (/\ is(Verdicts[a], "malicious")
                 /\ is(Verdicts[b], "suspicious")
                 /\ ~malicious(Item(Verdicts[b], "sandbox_name")))
                    => (0 < at(Verdicts[a]) /\ at(Verdicts[a]) < at(Verdicts[b]))
          /\ Verdicts = <<SuspiciousX, MaliciousY>>
                => sandboxes = << [name |-> S("Y"), values |-> <<S("Foo")>>],
                                  [name |-> S("X"), values |-> <<S("suspicious")>>] >>

\* the run over suspicious X followed by malicious Y has finished
C6_Witness ==
    /\ pc = "done"
    /\ Verdicts = <<SuspiciousX, MaliciousY>>
    /\ Len(GroupValues(enrichment, "sandboxes")) = 2

\* the attribute order the distinguished names are to follow
CanonicalOrder == <<"CN", "L", "ST", "O", "OU", "C", "STREET", "DC", "UID">>

\* the K=value pairs of the attributes of field that satisfy keep, comma-joined
\* in the canonical order
Rendered(field, keep(_)) ==
    Join(",", [i \in 1..Len(SelectSeq(CanonicalOrder, LAMBDA k : Has(field, k) /\ keep(Item(field, k))))
                 |-> LET k == SelectSeq(CanonicalOrder,
                                        LAMBDA a : Has(field, a) /\ keep(Item(field, a)))[i]
                     IN  k \o "=" \o Str(Item(field, k))])

\* subject and issuer of the output are the rendering of the certificate's fields
CertificateRendered(keep(_)) ==
    LET cert == Get(data, "last_https_certificate", EmptyDict)
    IN  (pc = "done" /\ Truthy(cert)) =>
          \A field \in {"subject", "issuer"} :
              FindingValues(enrichment, "certificate_info", S(field))
                  = <<S(Rendered(Item(cert, field), keep))>>

\* C7 as stated: subject and issuer render every attribute present in the
\* certificate field, in the canonical order
C7_PresentAttributes == CertificateRendered(LAMBDA v : TRUE)

\* C7: subject and issuer render every attribute present in the certificate
\* field with a non-empty value, in the canonical order and never in the
\* mapping's own order
C7_NonEmptyAttributes == CertificateRendered(Truthy)

\* subject {O: Acme, CN: acme.test} has been rendered as CN=acme.test,O=Acme
C7_Witness ==
    /\ pc = "done"
    /\ Has(data, "last_https_certificate")
    /\ Item(Item(data, "last_https_certificate"), "subject")
           = D(<< <<"O", S("Acme")>>, <<"CN", S("acme.test")>> >>)
    /\ FindingValues(enrichment, "certificate_info", S("subject")) = <<S("CN=acme.test,O=Acme")>>

\* <<group, name, key, value_key>>: the rules of _enrich that look a value up
\* with ignore_falsy set
FalsyLookups == {
    <<"summary", "av_suspicious", "last_analysis_stats", "suspicious">>,
    <<"alerts", "sigma_alerts_critical", "sigma_analysis_stats", "critical">>,
    <<"alerts", "sigma_alerts_high", "sigma_analysis_stats", "high">>,
    <<"alerts", "sigma_alerts_medium", "sigma_analysis_stats", "medium">>,
    <<"alerts", "sigma_alerts_low", "sigma_analysis_stats", "low">>,
    <<"alerts", "ids_alerts_high", "crowdsourced_ids_stats", "high">>,
    <<"alerts", "ids_alerts_medium", "crowdsourced_ids_stats", "medium">>,
    <<"alerts", "ids_alerts_low", "crowdsourced_ids_stats", "low">>,
    <<"alerts", "ids_alerts_info", "crowdsourced_ids_stats", "info">> }

\* the candidate values of such a rule: value_key of every row found under key
Candidates(key, value_key) ==
    LET item == Get(data, key, None)
        rows == IF item.t = "list" THEN item.v ELSE IF item.t = "dict" THEN <<item>> ELSE <<>>
        step(acc, row) == IF Has(row, value_key) THEN Append(acc, Item(row, value_key)) ELSE acc
    IN  Fold(step, <<>>, rows)

\* <<name, count>>: the literal counts of the summary filed with ignore_falsy set
FalsyCounts ==
    LET verdicts == GetEach(Verdicts, "category")
        ai == GetEach(Elements(Get(data, "crowdsourced_ai_results", EmptyList)).v, "verdict")
    IN  { <<"sandbox_suspicious", Count(verdicts, S("suspicious"))>>,
          <<"ai_malicious", Count(ai, S("malicious"))>>,
          <<"ai_suspicious", Count(ai, S("suspicious"))>> }

\* C8: a rule with ignore_falsy set files no falsy value at any point of a run;
\* in the output its finding holds the truthy candidates, every one of them,
\* and there is no finding when no candidate is truthy
C8_FalsySuppressed ==
    /\ \A k \in 1..Len(emitted) :
           (\/ \E r \in FalsyLookups : emitted[k].group = r[1] /\ emitted[k].name = S(r[2])
            \/ \E c \in FalsyCounts : emitted[k].group = "summary" /\ emitted[k].name = S(c[1]))
               => Truthy(emitted[k].value)
    /\ pc = "done" =>
         /\ \A r \in FalsyLookups :
              LET candidates == Candidates(r[3], r[4])
                  values == FindingValues(enrichment, r[1], S(r[2]))
              IN  /\ \A i \in 1..Len(values) :
                         Truthy(values[i]) /\ Contains(candidates, values[i])
                  /\ \A i \in 1..Len(candidates) :
                         Truthy(candidates[i]) => Contains(values, candidates[i])
                  /\ (\A i \in 1..Len(candidates) : ~Truthy(candidates[i]))
                         => FindingIndex(GroupValues(enrichment, r[1]), S(r[2])) = 0
         /\ \A c \in FalsyCounts :
              /\ c[2] = 0 => FindingIndex(GroupValues(enrichment, "summary"), S(c[1])) = 0
              /\ c[2] > 0 => FindingValues(enrichment, "summary", S(c[1])) = <<N(c[2])>>
         /\ (\A r \in FalsyLookups : r[1] = "alerts" =>
                 \A i \in 1..Len(Candidates(r[3], r[4])) : ~Truthy(Candidates(r[3], r[4])[i]))
                => GroupValues(enrichment, "alerts") = <<>>

\* of two rows of crowdsourced_ids_stats the first has a falsy 'high' and the
\* second 'high' 3: only 3 was filed, and the zero count of sandbox_suspicious
\* left no finding
C8_Witness ==
    /\ pc = "done"
    /\ Candidates("crowdsourced_ids_stats", "high") \in
           { <<N(0), N(3)>>, <<S(""), N(3)>>, <<L(<<>>), N(3)>>, <<None, N(3)>> }
    /\ FindingValues(enrichment, "alerts", S("ids_alerts_high")) = <<N(3)>>
    /\ FindingIndex(GroupValues(enrichment, "summary"), S("sandbox_suspicious")) = 0

\* C9: a run over the document of the first run, whatever was run in between,
\* gives the output of the first run, order included
C9_Deterministic ==
    (pc = "done" /\ later /\ runs # <<>> /\ data = runs[1].data)
        => enrichment = runs[1].enrichment

\* a later run over the first run's document has finished with its output
C9_Witness ==
    /\ pc = "done" /\ later /\ runs # <<>>
    /\ data = runs[1].data
    /\ Len(enrichment) >= 2
    /\ enrichment = runs[1].enrichment

\* the rows found under key
Rows(key) == Elements(Get(data, key, EmptyList)).v

\* C10: every yara rule_name stands under its own row's source, every yara
\* description under its own row's rule_name and every sigma rule_description
\* under its own row's rule_title
C10_OwnLabel ==
    pc = "done" =>
      \A r \in { <<"yara_hits", "crowdsourced_yara_results", "source", "rule_name">>,
                 <<"yara_descriptions", "crowdsourced_yara_results", "rule_name", "description">>,
                 <<"sigma_descriptions", "sigma_analysis_results", "rule_title",
                   "rule_description">> } :
          \A i \in 1..Len(Rows(r[2])) :
              (Has(Rows(r[2])[i], r[3]) /\ Has(Rows(r[2])[i], r[4]))
                  => Contains(FindingValues(enrichment, r[1], Item(Rows(r[2])[i], r[3])),
                              Item(Rows(r[2])[i], r[4]))

\* seq without the later occurrences of equal values
Distinct(seq) ==
    LET step(acc, x) == IF Contains(acc, x) THEN acc ELSE Append(acc, x)
    IN  Fold(step, <<>>, seq)

\* the name of the finding of an AI result: '<source>::<category>'
AIName(r) == S(Str(Item(r, "source")) \o "::" \o Str(Item(r, "category")))

\* C11: the finding '<source>::<category>' of group ai_analysis holds the
\* analysis texts of the results of that source and category, in source order
\* and deduplicated, and no text of another result
C11_OwnAnalyses ==
    pc = "done" =>
      \A i \in 1..Len(Rows("crowdsourced_ai_results")) :
          LET r == Rows("crowdsourced_ai_results")[i]
              own == SelectSeq(Rows("crowdsourced_ai_results"),
                               LAMBDA x : AIName(x) = AIName(r) /\ Has(x, "analysis"))
          IN  FindingValues(enrichment, "ai_analysis", AIName(r))
                  = Distinct([k \in 1..Len(own) |-> Item(own[k], "analysis")])

\* the findings of group dns_records that stand for a record type
TypeFindings ==
    SelectSeq(GroupValues(enrichment, "dns_records"),
              LAMBDA f : f.name \notin {S("last_updated"), S("SOA_RNAME")})

\* the field of every record of type t, in source order
OfType(t, field) ==
    LET records == SelectSeq(Rows("last_dns_records"), LAMBDA r : Item(r, "type") = t)
    IN  [k \in 1..Len(records) |-> Item(records[k], field)]

\* C12: in group dns_records last_updated, when last_dns_record_date is there,
\* is the first finding; the other findings are one per record type, in
\* ascending order of type whatever the order of the records, each with the
\* values of its records; SOA_RNAME holds the rname of the SOA records and
\* stands right after SOA
C12_SortedByType ==
    pc = "done" =>
      LET dns == GroupValues(enrichment, "dns_records")
          at(name) == FindingIndex(dns, S(name))
      IN  /\ IF Has(data, "last_dns_record_date")
             THEN /\ at("last_updated") = 1
                  /\ dns[1].values = <<S(IsoFormat(Number(Item(data, "last_dns_record_date"))))>>
             ELSE at("last_updated") = 0
          /\ \A i \in 1..Len(Rows("last_dns_records")) :
                 \E k \in 1..Len(TypeFindings) :
                     TypeFindings[k].name = Item(Rows("last_dns_records")[i], "type")
          /\ \A k \in 1..Len(TypeFindings) :
                 /\ TypeFindings[k].values = Distinct(OfType(TypeFindings[k].name, "value"))
                 /\ TypeFindings[k].values # <<>>
                 /\ \A k2 \in 1..Len(TypeFindings) :
                        k < k2 => StrLess(TypeFindings[k].name.v, TypeFindings[k2].name.v)
          /\ IF OfType(S("SOA"), "rname") # <<>>
             THEN /\ at("SOA_RNAME") = at("SOA") + 1
                  /\ dns[at("SOA_RNAME")].values = Distinct(OfType(S("SOA"), "rname"))
             ELSE at("SOA_RNAME") = 0

\* TXT and SOA records were given in descending order of type, after the date:
\* the output has last_updated, SOA, SOA_RNAME, TXT
C12_Witness ==
    /\ pc = "done"
    /\ Has(data, "last_dns_record_date")
    /\ Len(Rows("last_dns_records")) = 2
    /\ Item(Rows("last_dns_records")[1], "type") = S("TXT")
    /\ Item(Rows("last_dns_records")[2], "type") = S("SOA")
    /\ [k \in 1..Len(GroupValues(enrichment, "dns_records")) |->
            GroupValues(enrichment, "dns_records")[k].name]
           = <<S("last_updated"), S("SOA"), S("SOA_RNAME"), S("TXT")>>

\* C13: at every point of a run and in the output no group has an empty
\* list of findings and no finding an empty list of values, and every
\* (group, name) entry there is has had a value filed under it
C13_NoEmptyEntries ==
    /\ \A i \in 1..Len(_enrichment) :
         /\ _enrichment[i][2] # <<>>
         /\ \A j \in 1..Len(_enrichment[i][2]) :
              /\ _enrichment[i][2][j][2] # <<>>
              /\ FirstName(_enrichment[i][1], _enrichment[i][2][j][1]) > 0
    /\ \A i \in 1..Len(enrichment) :
         /\ enrichment[i].values # <<>>
         /\ \A j \in 1..Len(enrichment[i].values) : enrichment[i].values[j].values # <<>>
    /\ emitted = <<>> => _enrichment = <<>>

\* a finished run whose alert rules were suppressed as falsy or found no
\* value_key, and whose other rules found no key: there is no alerts group,
\* only the summary
C13_Witness ==
    /\ pc = "done"
    /\ Has(data, "sigma_analysis_stats")
    /\ Candidates("sigma_analysis_stats", "high") # <<>>
    /\ GroupValues(enrichment, "alerts") = <<>>
    /\ Len(enrichment) = 1
    /\ Len(GroupValues(enrichment, "summary")) >= 2

====
